---- MODULE Spec2Model ----
(***************************************************************************)
(* Task repository of TaskAPI (app/crud.py, app/models.py) with the PUT    *)
(* handler of app/main.py and the TaskUpdate schema of app/schemas.py.     *)
(*                                                                         *)
(* The table is a set of rows.  A session works on copies of rows it has   *)
(* loaded; commit sends to the table the columns whose value the session   *)
(* changed (the ORM's unit of work), addressed by primary key.             *)
(***************************************************************************)
EXTENDS Integers, Sequences, FiniteSets, TLC

VARIABLES
    tasks,      \* the task table: a set of rows
    next_id,    \* the storage's primary-key sequence
    now,        \* the last value the wall clock returned
    issued,     \* history: the ids handed out, in order
    last,       \* history: the last call, its arguments and what it returned
    prev,       \* history: the table as it was before the last call
    sess,       \* per session: the position of a call in progress and its locals
    ops         \* history: the number of calls (or session steps) made so far

vars == <<tasks, next_id, now, issued, last, prev, sess, ops>>

----------------------------------------------------------------------------
(* Bounds of the model *)

MaxOps == 2         \* calls per behaviour of Spec and SpecHttp
MaxIdOps == 4       \* calls per behaviour of SpecIds
MaxRows == 101      \* the largest table SpecList starts from
MaxCalls == 1       \* calls each session makes in a behaviour of SpecConc

(* Program constants *)

TitleMinLen == 1
TitleMaxLen == 200
DescriptionMaxLen == 1000
StatusMaxLen == 20
DefaultSkip == 0
DefaultLimit == 100

(* Input alphabets *)

NONE == "<None>"                    \* Python's None
Titles == {"A", "B"}
Descriptions == {"", "d"}
Statuses == {"pending", "done"}
LongStatus == "aaaaaaaaaaaaaaaaaaaaa"   \* 21 characters
Opt(S) == S \cup {NONE}
Sessions == {1, 2}

Min(a, b) == IF a <= b THEN a ELSE b

----------------------------------------------------------------------------
(* models.py: the Task row *)

Task(id, title, description, status, created_at, updated_at) ==
    [id |-> id, title |-> title, description |-> description,
     status |-> status, created_at |-> created_at, updated_at |-> updated_at]

(* models.py current_time: datetime.now(UTC), given the previous reading t.
   A reading is never below the previous one and may repeat it. *)
current_time(t) == {t, t + 1}

IdsOf(db) == {r.id : r \in db}

(* The primary key the storage gives to an inserted row whose id is None. *)
AllocateIdReuse(db, seq) ==
    IF db = {} THEN 1 ELSE (CHOOSE m \in IdsOf(db) : \A i \in IdsOf(db) : i <= m) + 1

AllocateId(db, seq) == seq

----------------------------------------------------------------------------
(* Session primitives used by crud.py *)

Exists(db, id) == \E r \in db : r.id = id

(* session.get(Task, id): the row, to be used only when Exists(db, id) *)
SessionGet(db, id) == CHOOSE r \in db : r.id = id

(* select(Task): the rows in the order the storage returns them, by
   primary key *)
RECURSIVE SelectAll(_)
SelectAll(db) ==
    IF db = {} THEN <<>>
    ELSE LET m == CHOOSE r \in db : \A q \in db : r.id <= q.id
         IN <<m>> \o SelectAll(db \ {m})

(* update_task lines 47-54: the attribute assignments on the loaded object *)
SetAttrsClearing(task, title, description, status, t) ==
    [task EXCEPT !.title = title, !.description = description,
                 !.status = status, !.updated_at = t]

SetAttrsKeepStamp(task, title, description, status, t) ==
    [task EXCEPT !.title = IF title # NONE THEN title ELSE @,
                 !.description = IF description # NONE THEN description ELSE @,
                 !.status = IF status # NONE THEN status ELSE @]

SetAttrs(task, title, description, status, t) ==
    [task EXCEPT !.title = IF title # NONE THEN title ELSE @,
                 !.description = IF description # NONE THEN description ELSE @,
                 !.status = IF status # NONE THEN status ELSE @,
                 !.updated_at = t]

(* One column of the UPDATE a commit sends: the session's value when the
   session changed it, else the stored value. *)
Col(stored, loaded, mem) == IF mem # loaded THEN mem ELSE stored

(* session.add(task); session.commit() of a modified object: UPDATE of the
   changed columns WHERE id = the object's id. *)
CommitUpdateWholeRow(db, loaded, mem) ==
    {IF r.id = loaded.id THEN mem ELSE r : r \in db}

CommitUpdate(db, loaded, mem) ==
    {IF r.id = loaded.id
     THEN [r EXCEPT !.title = Col(@, loaded.title, mem.title),
                    !.description = Col(@, loaded.description, mem.description),
                    !.status = Col(@, loaded.status, mem.status),
                    !.updated_at = Col(@, loaded.updated_at, mem.updated_at)]
     ELSE r : r \in db}

(* session.delete(task); session.commit(): DELETE WHERE id = the object's id *)
CommitDeleteEvery(db, ids) == {}

CommitDelete(db, ids) == {r \in db : r.id \notin ids}

----------------------------------------------------------------------------
(* crud.py.  Each operator gives the table after the call and what the call
   returns; c, u and t are the clock readings the call takes. *)

create_task(db, seq, title, description, status, c, u) ==
    LET task == Task(AllocateId(db, seq), title, description, status, c, u)
    IN [db |-> db \cup {task}, ret |-> task]

get_task_by_id(db, id) ==
    IF Exists(db, id) THEN [found |-> TRUE, ret |-> SessionGet(db, id)]
    ELSE [found |-> FALSE, ret |-> NONE]

get_all_tasks(db, skip, limit) ==
    LET all == SelectAll(db)
    IN SubSeq(all, skip + 1, Min(skip + limit, Len(all)))

Lower(x) == IF x = "Pending" THEN "pending" ELSE x

get_tasks_by_status_nocase(db, status) ==
    SelectSeq(SelectAll(db), LAMBDA r : Lower(r.status) = Lower(status))

get_tasks_by_status(db, status) ==
    SelectSeq(SelectAll(db), LAMBDA r : r.status = status)

update_task_upsert(db, id, title, description, status, t) ==
    IF ~Exists(db, id)
    THEN [db |-> db \cup {Task(id, title, description, status, t, t)},
          found |-> FALSE, ret |-> NONE]
    ELSE LET task == SessionGet(db, id)
             after == CommitUpdate(db, task, SetAttrs(task, title, description, status, t))
         IN [db |-> after, found |-> TRUE, ret |-> SessionGet(after, id)]

update_task(db, id, title, description, status, t) ==
    IF ~Exists(db, id)
    THEN [db |-> db, found |-> FALSE, ret |-> NONE]
    ELSE LET task == SessionGet(db, id)
             after == CommitUpdate(db, task, SetAttrs(task, title, description, status, t))
         IN [db |-> after, found |-> TRUE, ret |-> SessionGet(after, id)]

delete_task(db, id) ==
    IF ~Exists(db, id)
    THEN [db |-> db, ret |-> FALSE]
    ELSE [db |-> CommitDelete(db, {SessionGet(db, id).id}), ret |-> TRUE]

delete_all_tasks(db) ==
    LET rows == SelectAll(db)
    IN [db |-> CommitDelete(db, {rows[i].id : i \in DOMAIN rows}), ret |-> Len(rows)]

----------------------------------------------------------------------------
(* The record of a call: its arguments, the clock reading it ended with and
   what it returned *)

Call(op, id, title, description, status, code, ret) ==
    [op |-> op, id |-> id, title |-> title, description |-> description,
     status |-> status, code |-> code, ret |-> ret]

NoCall == Call("none", 0, NONE, NONE, NONE, "none", NONE)

Idle == [pc |-> "idle", calls |-> 0, id |-> 0, loaded |-> NONE, mem |-> NONE,
         title |-> NONE, description |-> NONE, status |-> NONE, rows |-> <<>>]

Init ==
    /\ tasks = {}
    /\ next_id = 1
    /\ now = 0
    /\ issued = <<>>
    /\ last = NoCall
    /\ prev = {}
    /\ sess = [s \in Sessions |-> Idle]
    /\ ops = 0

(* ids a caller asks for: every id issued so far and the next one *)
AskedIds == 1..next_id

----------------------------------------------------------------------------
(* One session at a time: each call runs to its return *)

CreateTask(title, description, status) ==
    /\ \E c \in current_time(now) : \E u \in current_time(c) :
         LET r == create_task(tasks, next_id, title, description, status, c, u)
         IN /\ tasks' = r.db
            /\ next_id' = r.ret.id + 1
            /\ now' = u
            /\ issued' = Append(issued, r.ret.id)
            /\ last' = Call("create", r.ret.id, title, description, status, "ok", r.ret)
    /\ prev' = tasks
    /\ ops' = ops + 1
    /\ UNCHANGED sess

GetTaskById(id) ==
    /\ LET r == get_task_by_id(tasks, id)
       IN last' = Call("get", id, NONE, NONE, NONE,
                       IF r.found THEN "ok" ELSE "none", r.ret)
    /\ prev' = tasks
    /\ ops' = ops + 1
    /\ UNCHANGED <<tasks, next_id, now, issued, sess>>

UpdateTask(id, title, description, status) ==
    /\ \E t \in current_time(now) :
         LET r == update_task(tasks, id, title, description, status, t)
         IN /\ tasks' = r.db
            /\ now' = IF Exists(tasks, id) THEN t ELSE now
            /\ last' = Call("update", id, title, description, status,
                            IF r.found THEN "ok" ELSE "none", r.ret)
    /\ prev' = tasks
    /\ ops' = ops + 1
    /\ UNCHANGED <<next_id, issued, sess>>

DeleteTask(id) ==
    /\ LET r == delete_task(tasks, id)
       IN /\ tasks' = r.db
          /\ last' = Call("delete", id, NONE, NONE, NONE,
                          IF r.ret THEN "ok" ELSE "none", r.ret)
    /\ prev' = tasks
    /\ ops' = ops + 1
    /\ UNCHANGED <<next_id, now, issued, sess>>

DeleteAllTasks ==
    /\ LET r == delete_all_tasks(tasks)
       IN /\ tasks' = r.db
          /\ last' = Call("delete_all", 0, NONE, NONE, NONE, "ok", r.ret)
    /\ prev' = tasks
    /\ ops' = ops + 1
    /\ UNCHANGED <<next_id, now, issued, sess>>

(* Every call with every combination of field values *)
Next ==
    \/ \E t \in Titles, d \in Opt(Descriptions), s \in Statuses :
         ops < MaxOps /\ CreateTask(t, d, s)
    \/ \E id \in AskedIds : ops < MaxOps /\ GetTaskById(id)
    \/ \E id \in AskedIds, t \in Opt(Titles), d \in Opt(Descriptions),
          s \in Opt(Statuses) : ops < MaxOps /\ UpdateTask(id, t, d, s)
    \/ \E id \in AskedIds : ops < MaxOps /\ DeleteTask(id)
    \/ ops < MaxOps /\ DeleteAllTasks

Spec == Init /\ [][Next]_vars

(* Longer runs over several rows, with one value per field *)
NextIds ==
    \/ ops < MaxIdOps /\ CreateTask("A", NONE, "pending")
    \/ \E id \in AskedIds : ops < MaxIdOps /\ GetTaskById(id)
    \/ \E id \in AskedIds, t \in Opt({"B"}), s \in Opt({"done"}) :
          ops < MaxIdOps /\ UpdateTask(id, t, NONE, s)
    \/ \E id \in AskedIds : ops < MaxIdOps /\ DeleteTask(id)
    \/ ops < MaxIdOps /\ DeleteAllTasks

SpecIds == Init /\ [][NextIds]_vars

----------------------------------------------------------------------------
(* schemas.py and main.py: the request bodies and the POST and PUT handlers *)

(* TaskCreate: title required, 1..200; description optional, at most 1000;
   status at most 20.  A field that is absent arrives here as NONE. *)
TaskCreate(title, description, status) ==
    /\ title # NONE /\ Len(title) >= TitleMinLen /\ Len(title) <= TitleMaxLen
    /\ description = NONE \/ Len(description) <= DescriptionMaxLen
    /\ status = NONE \/ Len(status) <= StatusMaxLen

(* TaskUpdate: every field optional, with the same length limits *)
TaskUpdate(title, description, status) ==
    /\ title = NONE \/ (Len(title) >= TitleMinLen /\ Len(title) <= TitleMaxLen)
    /\ description = NONE \/ Len(description) <= DescriptionMaxLen
    /\ status = NONE \/ Len(status) <= StatusMaxLen

(* Python's truth value of an Optional[str]: None and "" are false *)
Truthy(v) == v # NONE /\ v # ""

create_new_task(db, seq, title, description, status, c, u) ==
    IF ~TaskCreate(title, description, status)
    THEN [db |-> db, code |-> "422", ret |-> NONE]
    ELSE LET r == create_task(db, seq, title, description,
                              IF status = NONE THEN "pending" ELSE status, c, u)
         IN [db |-> r.db, code |-> "201", ret |-> r.ret]

update_existing_task(db, task_id, title, description, status, t) ==
    IF ~TaskUpdate(title, description, status)
    THEN [db |-> db, code |-> "422", ret |-> NONE]
    ELSE IF ~(Truthy(title) \/ Truthy(description) \/ Truthy(status))
    THEN [db |-> db, code |-> "400", ret |-> NONE]
    ELSE LET r == update_task(db, task_id, title, description, status, t)
         IN IF ~r.found
            THEN [db |-> r.db, code |-> "404", ret |-> NONE]
            ELSE [db |-> r.db, code |-> "200", ret |-> r.ret]

PostTask(title, description, status) ==
    /\ \E c \in current_time(now) : \E u \in current_time(c) :
         LET r == create_new_task(tasks, next_id, title, description, status, c, u)
         IN /\ tasks' = r.db
            /\ last' = Call("post", IF r.code = "201" THEN r.ret.id ELSE 0,
                            title, description, status, r.code, r.ret)
            /\ IF r.code = "201"
               THEN /\ next_id' = r.ret.id + 1
                    /\ now' = u
                    /\ issued' = Append(issued, r.ret.id)
               ELSE UNCHANGED <<next_id, now, issued>>
    /\ prev' = tasks
    /\ ops' = ops + 1
    /\ UNCHANGED sess

PutTask(task_id, title, description, status) ==
    /\ \E t \in current_time(now) :
         LET r == update_existing_task(tasks, task_id, title, description, status, t)
         IN /\ tasks' = r.db
            /\ now' = IF r.code = "200" THEN t ELSE now
            /\ last' = Call("put", task_id, title, description, status, r.code, r.ret)
    /\ prev' = tasks
    /\ ops' = ops + 1
    /\ UNCHANGED <<next_id, issued, sess>>

NextHttp ==
    \/ \E t \in Opt(Titles \cup {""}), d \in Opt(Descriptions), s \in Opt(Statuses) :
         ops < MaxOps /\ PostTask(t, d, s)
    \/ \E id \in AskedIds, t \in Opt(Titles \cup {""}), d \in Opt(Descriptions),
          s \in Opt(Statuses \cup {"", LongStatus}) :
         ops < MaxOps /\ PutTask(id, t, d, s)

SpecHttp == Init /\ [][NextHttp]_vars

----------------------------------------------------------------------------
(* The list queries, on tables of up to MaxRows rows written by earlier
   creates.  Row i was created at clock reading i; its status follows one
   of three patterns. *)

ListStatuses == {"pending", "Pending", "done", "archived"}

StatusAt(i, n, pattern) ==
    CASE pattern = 1 -> "pending"
      [] pattern = 2 -> IF i % 2 = 0 THEN "done" ELSE "pending"
      [] OTHER -> IF i = n THEN "Pending" ELSE "pending"

InitList ==
    \E n \in 0..MaxRows, pattern \in 1..3 :
        /\ tasks = {Task(i, "A", NONE, StatusAt(i, n, pattern), i, i) : i \in 1..n}
        /\ next_id = n + 1
        /\ now = n
        /\ issued = [i \in 1..n |-> i]
        /\ last = NoCall
        /\ prev = {}
        /\ sess = [s \in Sessions |-> Idle]
        /\ ops = 0

GetAllTasks(skip, limit) ==
    /\ last' = Call("list", skip, NONE, NONE, NONE, "ok", get_all_tasks(tasks, skip, limit))
    /\ prev' = tasks
    /\ UNCHANGED <<tasks, next_id, now, issued, sess, ops>>

GetTasksByStatus(status) ==
    /\ last' = Call("list_by_status", 0, NONE, NONE, status, "ok",
                    get_tasks_by_status(tasks, status))
    /\ prev' = tasks
    /\ UNCHANGED <<tasks, next_id, now, issued, sess, ops>>

NextList ==
    \/ \E a \in {<<DefaultSkip, DefaultLimit>>, <<1, 1>>} : GetAllTasks(a[1], a[2])
    \/ \E x \in ListStatuses : GetTasksByStatus(x)

SpecList == InitList /\ [][NextList]_vars

----------------------------------------------------------------------------
(* Two sessions running calls at the same time.  A call that reads before it
   writes takes two steps: the read, with everything the session then does
   to its own objects, and the commit. *)

(* The table holds one task, created earlier *)
InitConc ==
    /\ tasks = {Task(1, "A", "d", "pending", 0, 0)}
    /\ next_id = 2
    /\ now = 0
    /\ issued = <<1>>
    /\ last = NoCall
    /\ prev = {}
    /\ sess = [s \in Sessions |-> Idle]
    /\ ops = 0

Done(s) == sess' = [sess EXCEPT ![s] = [Idle EXCEPT !.calls = sess[s].calls + 1]]

CanCall(s) == sess[s].pc = "idle" /\ sess[s].calls < MaxCalls

(* create_task: the insert is the call's only access to the table *)
SessCreate(s, title, description, status) ==
    /\ CanCall(s)
    /\ \E c \in current_time(now) : \E u \in current_time(c) :
         LET r == create_task(tasks, next_id, title, description, status, c, u)
         IN /\ tasks' = r.db
            /\ next_id' = r.ret.id + 1
            /\ now' = u
            /\ issued' = Append(issued, r.ret.id)
            /\ last' = Call("sess_create", r.ret.id, title, description, status, "ok",
                            [s |-> s, task |-> r.ret])
    /\ prev' = tasks
    /\ ops' = ops + 1
    /\ Done(s)

(* update_task lines 43-54: session.get, the early return, the assignments *)
SessUpdateRead(s, id, title, description, status) ==
    /\ CanCall(s)
    /\ IF ~Exists(tasks, id)
       THEN /\ last' = Call("sess_update", id, title, description, status, "none",
                            [s |-> s])
            /\ Done(s)
            /\ UNCHANGED now
       ELSE \E t \in current_time(now) :
            LET task == SessionGet(tasks, id)
            IN /\ sess' = [sess EXCEPT ![s] =
                    [@ EXCEPT !.pc = "update", !.id = id, !.loaded = task,
                              !.mem = SetAttrs(task, title, description, status, t),
                              !.title = title, !.description = description,
                              !.status = status]]
               /\ now' = t
               /\ last' = Call("sess_update_read", id, title, description, status, "ok",
                               [s |-> s])
    /\ prev' = tasks
    /\ ops' = ops + 1
    /\ UNCHANGED <<tasks, next_id, issued>>

(* update_task lines 55-58: add, commit, refresh.  The UPDATE of a row that
   is gone raises. *)
SessUpdateCommit(s) ==
    /\ sess[s].pc = "update"
    /\ IF ~Exists(tasks, sess[s].id)
       THEN /\ last' = Call("sess_update", sess[s].id, sess[s].title,
                            sess[s].description, sess[s].status, "error", [s |-> s])
            /\ UNCHANGED tasks
       ELSE LET after == CommitUpdate(tasks, sess[s].loaded, sess[s].mem)
            IN /\ tasks' = after
               /\ last' = Call("sess_update", sess[s].id, sess[s].title,
                               sess[s].description, sess[s].status, "ok",
                               [s |-> s, task |-> SessionGet(after, sess[s].id),
                                loaded |-> sess[s].loaded, mem |-> sess[s].mem])
    /\ prev' = tasks
    /\ ops' = ops + 1
    /\ Done(s)
    /\ UNCHANGED <<next_id, now, issued>>

(* delete_task lines 63-65: session.get and the early return *)
SessDeleteRead(s, id) ==
    /\ CanCall(s)
    /\ IF ~Exists(tasks, id)
       THEN /\ last' = Call("sess_delete", id, NONE, NONE, NONE, "none",
                            [s |-> s, deleted |-> FALSE])
            /\ Done(s)
       ELSE /\ sess' = [sess EXCEPT ![s] =
                    [@ EXCEPT !.pc = "delete", !.id = id,
                              !.loaded = SessionGet(tasks, id)]]
            /\ last' = Call("sess_delete_read", id, NONE, NONE, NONE, "ok", [s |-> s])
    /\ prev' = tasks
    /\ ops' = ops + 1
    /\ UNCHANGED <<tasks, next_id, now, issued>>

(* delete_task lines 67-69: delete, commit, return True *)
SessDeleteCommit(s) ==
    /\ sess[s].pc = "delete"
    /\ tasks' = CommitDelete(tasks, {sess[s].loaded.id})
    /\ last' = Call("sess_delete", sess[s].id, NONE, NONE, NONE, "ok",
                    [s |-> s, deleted |-> TRUE])
    /\ prev' = tasks
    /\ ops' = ops + 1
    /\ Done(s)
    /\ UNCHANGED <<next_id, now, issued>>

(* delete_all_tasks lines 74-77: the select and the count *)
SessDeleteAllRead(s) ==
    /\ CanCall(s)
    /\ sess' = [sess EXCEPT ![s] = [@ EXCEPT !.pc = "delete_all",
                                              !.rows = SelectAll(tasks)]]
    /\ last' = Call("sess_delete_all_read", 0, NONE, NONE, NONE, "ok", [s |-> s])
    /\ prev' = tasks
    /\ ops' = ops + 1
    /\ UNCHANGED <<tasks, next_id, now, issued>>

(* delete_all_tasks lines 79-83: a delete per row read, the commit, the count *)
delete_all_commit_truncate(db, rows) ==
    [db |-> {}, ret |-> Cardinality(db)]

delete_all_commit(db, rows) ==
    [db |-> CommitDelete(db, {rows[i].id : i \in DOMAIN rows}), ret |-> Len(rows)]

SessDeleteAllCommit(s) ==
    /\ sess[s].pc = "delete_all"
    /\ LET r == delete_all_commit(tasks, sess[s].rows)
       IN /\ tasks' = r.db
          /\ last' = Call("sess_delete_all", 0, NONE, NONE, NONE, "ok",
                          [s |-> s, count |-> r.ret, rows |-> sess[s].rows])
    /\ prev' = tasks
    /\ ops' = ops + 1
    /\ Done(s)
    /\ UNCHANGED <<next_id, now, issued>>

NextConc ==
    \/ \E s \in Sessions : SessCreate(s, "B", NONE, "pending")
    \/ \E s \in Sessions, id \in AskedIds, t \in Opt(Titles), st \in Opt({"done"}) :
         SessUpdateRead(s, id, t, NONE, st)
    \/ \E s \in Sessions : SessUpdateCommit(s)
    \/ \E s \in Sessions, id \in AskedIds : SessDeleteRead(s, id)
    \/ \E s \in Sessions : SessDeleteCommit(s)
    \/ \E s \in Sessions : SessDeleteAllRead(s)
    \/ \E s \in Sessions : SessDeleteAllCommit(s)

SpecConc == InitConc /\ [][NextConc]_vars

----------------------------------------------------------------------------
(* Claims about the repository calls *)

UpdatedExisting == last.op = "update" /\ last.code = "ok"
OldRow == SessionGet(prev, last.id)
NewRow == SessionGet(tasks, last.id)
Range(q) == {q[i] : i \in DOMAIN q}

(* C1: after update of an existing task, the stored and the returned task
   hold every supplied field at the supplied value, and every omitted field,
   the id and created_at at their value before the call. *)
C1_UpdateFrame ==
    UpdatedExisting =>
        /\ Exists(prev, last.id) /\ Exists(tasks, last.id)
        /\ last.ret = NewRow
        /\ NewRow.title = (IF last.title # NONE THEN last.title ELSE OldRow.title)
        /\ NewRow.description =
             (IF last.description # NONE THEN last.description ELSE OldRow.description)
        /\ NewRow.status = (IF last.status # NONE THEN last.status ELSE OldRow.status)
        /\ NewRow.id = OldRow.id
        /\ NewRow.created_at = OldRow.created_at

C1_Witness ==
    /\ UpdatedExisting
    /\ last.title # NONE /\ last.title # OldRow.title
    /\ last.description = NONE /\ OldRow.description = "d"
    /\ last.status = NONE /\ OldRow.status = "done"

(* C2 as stated: an update of an existing task that supplies a field leaves
   updated_at strictly greater than it was. *)
C2_StrictlyIncreases ==
    (UpdatedExisting /\ <<last.title, last.description, last.status>> # <<NONE, NONE, NONE>>)
        => NewRow.updated_at > OldRow.updated_at

(* C2 amended: an update of an existing task sets updated_at to the clock
   reading the call took, which is never below the value before the call. *)
C2_RefreshedToNow ==
    UpdatedExisting =>
        /\ NewRow.updated_at = now
        /\ NewRow.updated_at >= OldRow.updated_at

C2_Witness ==
    /\ UpdatedExisting
    /\ last.status # NONE /\ last.status # OldRow.status
    /\ NewRow.updated_at = OldRow.updated_at

(* C3: update of an id that is not stored returns None and leaves the table
   as it was, every row and every field. *)
C3_UpdateMissing ==
    (last.op = "update" /\ ~Exists(prev, last.id)) =>
        /\ last.code = "none"
        /\ tasks = prev

C3_Witness ==
    /\ last.op = "update" /\ last.code = "none"
    /\ last.title # NONE /\ last.status # NONE
    /\ Cardinality(prev) = 2

(* C4: delete returns True exactly when the id was stored; afterwards
   get_task_by_id finds nothing under that id, and the table is the table
   before the call without that row. *)
C4_Delete ==
    last.op = "delete" =>
        /\ last.ret = Exists(prev, last.id)
        /\ ~get_task_by_id(tasks, last.id).found
        /\ tasks = {r \in prev : r.id # last.id}

C4_Witness ==
    /\ last.op = "delete" /\ last.ret = TRUE
    /\ Cardinality(prev) = 2 /\ Cardinality(tasks) = 1

(* C6: the task create returns has an id, and its created_at equals its
   updated_at. *)
C6_CreateStamps ==
    last.op = "create" =>
        /\ last.ret.id \in Nat
        /\ last.ret.created_at = last.ret.updated_at

(* C7: ids are handed out in strictly increasing order, so none is given
   twice, not even one freed by delete or delete-all; stored rows have
   distinct ids, all handed out by create; and no call other than create
   brings an id into the table. *)
C7_IdsAssignedOnce ==
    /\ \A i, j \in DOMAIN issued : i < j => issued[i] < issued[j]
    /\ IdsOf(tasks) \subseteq Range(issued)
    /\ Cardinality(IdsOf(tasks)) = Cardinality(tasks)
    /\ last.op = "create" => IdsOf(tasks) = IdsOf(prev) \cup {last.ret.id}
    /\ last.op # "create" => IdsOf(tasks) \subseteq IdsOf(prev)
    /\ UpdatedExisting => IdsOf(tasks) = IdsOf(prev)

C7_Witness ==
    /\ last.op = "create"
    /\ \E i \in Range(issued) : i < last.ret.id /\ i \notin IdsOf(prev)

(* C9: a PUT whose body passes the schema is answered 400 exactly when it
   supplies none of title, description and status; otherwise it reaches
   update_task and is answered 200 with the updated task when the id is
   stored and 404 when it is not, so a body supplying only description ""
   clears the description. *)
C9_PutAnswers ==
    (last.op = "put" /\ last.code # "422") =>
        /\ last.code = "400" <=>
             <<last.title, last.description, last.status>> = <<NONE, NONE, NONE>>
        /\ last.code # "400" =>
             last.code = (IF Exists(prev, last.id) THEN "200" ELSE "404")
        /\ last.code = "200" =>
             /\ last.ret = NewRow
             /\ last.description # NONE => NewRow.description = last.description

----------------------------------------------------------------------------
(* Claims about the list queries *)

Matching(q, x) == SelectSeq(q, LAMBDA r : r.status = x)

(* C8 as stated: get_tasks_by_status(x) returns exactly the tasks of
   get_all_tasks() whose status equals x. *)
C8_SubsetOfListAll ==
    last.op = "list_by_status" =>
        last.ret = Matching(get_all_tasks(tasks, DefaultSkip, DefaultLimit), last.status)

(* C8 amended: get_tasks_by_status(x) returns, once each, exactly the
   stored tasks whose status is x letter for letter, and an empty sequence
   when there is none; that is the matching part of get_all_tasks()
   whenever the table has at most DefaultLimit rows. *)
C8_SubsetOfTable ==
    last.op = "list_by_status" =>
        /\ Range(last.ret) = {r \in tasks : r.status = last.status}
        /\ Len(last.ret) = Cardinality(Range(last.ret))
        /\ Cardinality(tasks) <= DefaultLimit =>
             last.ret = Matching(get_all_tasks(tasks, DefaultSkip, DefaultLimit),
                                 last.status)

C8_Witness ==
    /\ last.op = "list_by_status" /\ last.status = "pending"
    /\ Cardinality(tasks) > DefaultLimit
    /\ Len(last.ret) < Cardinality(tasks)
    /\ \E r \in Range(last.ret) : r.id > DefaultLimit

----------------------------------------------------------------------------
(* Claims about calls running at the same time *)

(* C5 as stated: delete-all returns the number of rows stored when it was
   called and leaves the table empty, also when another session creates a
   task during the call. *)
C5_DeleteAllEmpties ==
    last.op = "sess_delete_all" =>
        /\ last.ret.count = Len(last.ret.rows)
        /\ tasks = {}

(* C5 amended: delete-all returns the number of rows its select read and
   removes exactly those rows; a row another session inserted between the
   select and the commit stays.  When no other commit falls in between, the
   count is the number of rows stored before the call and the table is
   empty afterwards. *)
C5_DeleteAllRemovesWhatItRead ==
    last.op = "sess_delete_all" =>
        /\ last.ret.count = Len(last.ret.rows)
        /\ tasks = {r \in prev : r.id \notin {q.id : q \in Range(last.ret.rows)}}
        /\ SelectAll(prev) = last.ret.rows =>
             (last.ret.count = Cardinality(prev) /\ tasks = {})

C5_Witness ==
    /\ last.op = "sess_delete_all"
    /\ last.ret.count = 1
    /\ Cardinality(tasks) = 1

(* C10 as stated: after two sessions updated the same task at the same
   time, the stored row carries the values of the update that committed
   last: every field that update supplied holds the value it supplied, and
   updated_at is the reading that update took. *)
C10_LastWriteWins ==
    (last.op = "sess_update" /\ last.code = "ok") =>
        /\ last.title # NONE => NewRow.title = last.title
        /\ last.description # NONE => NewRow.description = last.description
        /\ last.status # NONE => NewRow.status = last.status
        /\ NewRow.updated_at = last.ret.mem.updated_at

(* C10 amended: the commit of an update writes the columns its session
   changed with respect to the row it read, and leaves every other column
   and every other row as stored; column by column the last commit that
   changed it wins, so the row may combine columns of both updates. *)
C10_LastWritePerColumn ==
    (last.op = "sess_update" /\ last.code = "ok") =>
        LET l == last.ret.loaded
            m == last.ret.mem
        IN /\ NewRow.id = OldRow.id /\ NewRow.created_at = OldRow.created_at
           /\ NewRow.title = (IF m.title # l.title THEN m.title ELSE OldRow.title)
           /\ NewRow.description =
                (IF m.description # l.description THEN m.description
                 ELSE OldRow.description)
           /\ NewRow.status = (IF m.status # l.status THEN m.status ELSE OldRow.status)
           /\ NewRow.updated_at =
                (IF m.updated_at # l.updated_at THEN m.updated_at
                 ELSE OldRow.updated_at)
           /\ last.ret.task = NewRow
           /\ tasks \ {NewRow} = prev \ {OldRow}

C10_Witness ==
    /\ last.op = "sess_update" /\ last.code = "ok"
    /\ OldRow # last.ret.loaded
    /\ NewRow # last.ret.mem
    /\ last.title = NONE /\ last.status = "done"
    /\ NewRow.title = "B" /\ NewRow.status = "done"

====
